---- MODULE Spec2Model ----
(***************************************************************************)
(* Model of metrics/SELD_evaluation_metrics.py: the SELDMetrics            *)
(* accumulator (its two ingestion methods and compute_seld_scores) and the *)
(* two angular distance functions.                                         *)
(*                                                                         *)
(* Floating point numbers are modelled in fixed point.  A dimensionless    *)
(* number or a radian value x is the integer x * Scale; an angle in        *)
(* degrees is kept in arc minutes (degrees * 60), so that the mean of up   *)
(* to three table angles is exact.  The trigonometric functions are        *)
(* computed from a sine table with one entry every Step degrees and their  *)
(* inverses return the table angle whose sine or cosine is nearest.        *)
(***************************************************************************)
EXTENDS Integers, Sequences, FiniteSets, TLC

\* ------------------------------------------------------------------ bounds
\* Blocks ingested by all the ingestion calls of one behaviour together.
MaxTotalBlocks == 2
\* nb_classes of the accumulator under test (the code's default is 11).
NbClasses == 2
\* Frame indices of a track are drawn from 0..MaxFrame.
MaxFrame == 1

\* --------------------------------------------------------------- numerics
\* Fixed-point unit of a float.
Scale == 10000
\* np.pi, in units of 1/Scale.
Pi == 31416
\* doa_threshold, the default of SELDMetrics.__init__, in degrees.
DoaThreshold == 20
\* Resolution of the sine table, in degrees.
Step == 5

\* Arc minutes of a whole number of degrees.
Deg(d) == d * 60

\* sin of 0, 5, ..., 90 degrees, times Scale.
SinTab ==
  <<0, 872, 1736, 2588, 3420, 4226, 5000, 5736, 6428, 7071,
    7660, 8192, 8660, 9063, 9397, 9659, 9848, 9962, 10000>>

\* Division rounding to the nearest integer (b > 0).
RoundDiv(a, b) == IF a >= 0 THEN (2 * a + b) \div (2 * b)
                            ELSE -((2 * (-a) + b) \div (2 * b))

\* np.abs
Abs(x) == IF x < 0 THEN -x ELSE x

\* np.clip(x, lo, hi)
Clip(x, lo, hi) == IF x < lo THEN lo ELSE IF x > hi THEN hi ELSE x

\* sin of a whole number of degrees (a multiple of Step), times Scale.
SinDeg(d) ==
  LET m == d % 360
  IN  IF m <= 90 THEN SinTab[(m \div Step) + 1]
      ELSE IF m <= 180 THEN SinTab[((180 - m) \div Step) + 1]
      ELSE IF m <= 270 THEN -SinTab[((m - 180) \div Step) + 1]
      ELSE -SinTab[((360 - m) \div Step) + 1]

CosDeg(d) == SinDeg(d + 90)

\* The multiplication "* np.pi / 180": degrees to radians (times Scale).
ToRad(d) == RoundDiv(d * Pi, 180)

\* The table angle (degrees) nearest to a radian value.
NearestDeg(r) == Step * RoundDiv(r * 180, Pi * Step)

\* np.sin and np.cos of a radian value.
Sin(r) == SinDeg(NearestDeg(r))
Cos(r) == CosDeg(NearestDeg(r))

\* Product of two fixed-point numbers.
Mul(a, b) == RoundDiv(a * b, Scale)

\* cos and sin of the table angles 0, Step, ..., 180 and 0, Step, ..., 90
\* (@@ makes each an explicit function, evaluated once).
CosTab == [k \in 0..(180 \div Step) |-> CosDeg(Step * k)] @@ <<>>
SinTabAsc == [k \in 0..(90 \div Step) |-> SinDeg(Step * k)] @@ <<>>

\* np.arccos: the radian value of the table angle in 0..180 degrees whose
\* cosine is nearest to x (the cosines decrease: the angle is past entry
\* j - 1 when x is nearer to entry j).
Arccos(x) ==
  LET k == Cardinality({j \in 1..(180 \div Step) : 2 * x < CosTab[j - 1] + CosTab[j]})
  IN  ToRad(Step * k)

\* np.arcsin on [0, 1]: the radian value of the table angle in 0..90 degrees
\* whose sine is nearest to x.
Arcsin(x) ==
  LET k == Cardinality({j \in 1..(90 \div Step) : 2 * x > SinTabAsc[j - 1] + SinTabAsc[j]})
  IN  ToRad(Step * k)

\* np.sqrt of n / Scale^2, times Scale: the integer square root of n.
RECURSIVE SqrtBetween(_, _, _)
SqrtBetween(n, lo, hi) ==
  IF lo >= hi THEN lo
  ELSE LET mid == (lo + hi + 1) \div 2
       IN  IF mid * mid <= n THEN SqrtBetween(n, mid, hi)
                             ELSE SqrtBetween(n, lo, mid - 1)

Sqrt(n) == SqrtBetween(n, 0, 4 * Scale)

\* The multiplication "* 180 / np.pi": radians to degrees, in arc minutes.
ToDegrees(r) == RoundDiv(r * 180 * 60, Pi)

\* distance_between_spherical_coordinates_rad(az1, ele1, az2, ele2): angles
\* in radians, the result in degrees (arc minutes).
distance_between_spherical_coordinates_rad(az1, ele1, az2, ele2) ==
  LET dist == Mul(Sin(ele1), Sin(ele2))
                + Mul(Mul(Cos(ele1), Cos(ele2)), Cos(Abs(az1 - az2)))
  IN  ToDegrees(Arccos(Clip(dist, -Scale, Scale)))

\* distance_between_cartesian_coordinates(x1, y1, z1, x2, y2, z2): the
\* chord is clipped to [-1, 1], not to [0, 2], before the arcsine.
distance_between_cartesian_coordinates(x1, y1, z1, x2, y2, z2) ==
  LET dist == Sqrt((x1 - x2) * (x1 - x2) + (y1 - y2) * (y1 - y2)
                     + (z1 - z2) * (z1 - z2))
  IN  ToDegrees(2 * Arcsin(Clip(dist, -Scale, Scale) \div 2))

\* ----------------------------------------------------------------- inputs
\* A direction is <<azimuth, elevation>> in whole degrees.  The same
\* direction is handed to update_seld_scores as that pair and to
\* update_seld_scores_xyz as the unit vector Xyz(d).
GtDirs == {<<0, 20>>}
PredDirs == {<<0, 20>>, <<0, 0>>, <<180, -20>>}

Xyz(d) == <<Mul(CosDeg(d[2]), CosDeg(d[1])), Mul(CosDeg(d[2]), SinDeg(d[1])),
            SinDeg(d[2])>>

\* Frame-index lists of a track, a run of consecutive frames of the block: a
\* ground-truth track is active from frame 0 to some frame, a predicted
\* track from some frame to frame MaxFrame.
FrameRun(lo, hi) == [i \in 1..(hi - lo + 1) |-> lo + i - 1]
GtFrameLists == {FrameRun(0, k) : k \in 0..MaxFrame}
PredFrameLists == {FrameRun(j, MaxFrame) : j \in 0..MaxFrame}

\* gt[block][class][0] and pred[block][class][0]: the frame-index list [0]
\* and the coordinate list [1], aligned by position.
TracksOver(lists, dirs) ==
  UNION {[frames : {fl}, dirs : [1..Len(fl) -> dirs]] : fl \in lists}

GtTracks == TracksOver(GtFrameLists, GtDirs)
PredTracks == TracksOver(PredFrameLists, PredDirs)

\* The value of gt_trk and pred_trk when a class step reads no track.
NoTrack == [frames |-> <<>>, dirs |-> <<>>]

\* Keys of a block's class mapping: the classes, and one key that is no
\* class index.
Keys == 0..NbClasses

\* gt[block_cnt]: the key set of the block's ground-truth mapping.
GtBlocks == SUBSET Keys

\* pred[block_cnt]: the key set of the block's prediction mapping, or no
\* entry for block_cnt at all.
PredBlocks ==
  [present : {TRUE}, keys : SUBSET Keys] \cup {[present |-> FALSE, keys |-> {}]}

\* The value of pred_blk outside a block.
NoBlock == [present |-> TRUE, keys |-> {}]

\* ------------------------------------------------------------ accumulator
\* SELDMetrics.__init__: all counters zero.
Zero ==
  [TP |-> 0, FP |-> 0, TN |-> 0, FN |-> 0, S |-> 0, D |-> 0, I |-> 0,
   Nref |-> 0, Nsys |-> 0, total_DE |-> 0, DE_TP |-> 0]

Counters == DOMAIN Zero

\* One run of an ingestion method over an accumulator: the accumulator, the
\* method's locals loc_FN and loc_FP, and whether it has raised.
NewRun(a) == [acc |-> a, loc_FN |-> 0, loc_FP |-> 0, raised |-> FALSE]

\* pred_ind_list.index(val): the first position of val (1-based here).
Index(list, val) == CHOOSE i \in 1..Len(list) :
                      list[i] = val /\ \A j \in 1..(i - 1) : list[j] # val

\* val in pred_ind_list
In(val, list) == \E i \in 1..Len(list) : list[i] = val

\* The distance call of the two methods, on the coordinates of direction g
\* (ground truth) and p (prediction).
DistanceCall(v, g, p) ==
  IF v = "xyz"
    THEN LET a == Xyz(g)
             b == Xyz(p)
         IN  distance_between_cartesian_coordinates(a[1], a[2], a[3], b[1], b[2], b[3])
    ELSE distance_between_spherical_coordinates_rad(
           ToRad(g[1]), ToRad(g[2]), ToRad(p[1]), ToRad(p[2]))

\* The distance calls on the model's directions, evaluated once.
DistanceTable ==
  [c \in {"xyz", "polar"} \X GtDirs \X PredDirs |-> DistanceCall(c[1], c[2], c[3])] @@ <<>>

Distance(v, g, p) == DistanceTable[<<v, g, p>>]

\* The loop over gt_ind_list from position i on: total_spatial_dist and
\* total_framewise_matching_doa.
RECURSIVE MatchLoop(_, _, _, _)
MatchLoop(v, tg, tp, i) ==
  IF i > Len(tg.frames) THEN [dist |-> 0, cnt |-> 0]
  ELSE LET rest == MatchLoop(v, tg, tp, i + 1)
       IN  IF In(tg.frames[i], tp.frames)
             THEN [dist |-> rest.dist
                              + Distance(v, tg.dirs[i], tp.dirs[Index(tp.frames, tg.frames[i])]),
                   cnt |-> rest.cnt + 1]
             ELSE rest

\* Mutant of WithinThreshold: a strict comparison.
WithinThresholdStrict(avg, T) == avg < T

\* avg_spatial_dist <= self._spatial_T
WithinThreshold(avg, T) == avg <= T

\* loc_FN += 1; self._FN += 1
CountFN(r) == [r EXCEPT !.loc_FN = @ + 1, !.acc.FN = @ + 1]

\* The branch of a class present in both mappings.
BothPresent(r, v, T, tg, tp) ==
  LET m == MatchLoop(v, tg, tp, 1)
  IN  IF m.dist = 0 /\ m.cnt = 0 THEN CountFN(r)
      ELSE LET avg_spatial_dist == m.dist \div m.cnt
               r1 == [r EXCEPT !.acc.total_DE = @ + avg_spatial_dist,
                               !.acc.DE_TP = @ + 1]
           IN  IF WithinThreshold(avg_spatial_dist, T)
                 THEN [r1 EXCEPT !.acc.TP = @ + 1]
                 ELSE CountFN(r1)

\* Mutant of Classify: the false-positive branch falls through to the
\* true-negative one (an if where the code has an elif).
ClassifyFallThrough(r, v, T, inGt, inPred, tg, tp) ==
  IF inGt /\ inPred THEN BothPresent(r, v, T, tg, tp)
  ELSE IF inGt /\ ~inPred THEN CountFN(r)
  ELSE IF ~inGt /\ inPred
    THEN [r EXCEPT !.loc_FP = @ + 1, !.acc.FP = @ + 1, !.acc.TN = @ + 1]
  ELSE [r EXCEPT !.acc.TN = @ + 1]

\* Mutant of Classify: TN is assigned, not added to.
ClassifyAssignTN(r, v, T, inGt, inPred, tg, tp) ==
  IF inGt /\ inPred THEN BothPresent(r, v, T, tg, tp)
  ELSE IF inGt /\ ~inPred THEN CountFN(r)
  ELSE IF ~inGt /\ inPred THEN [r EXCEPT !.loc_FP = @ + 1, !.acc.FP = @ + 1]
  ELSE [r EXCEPT !.acc.TN = 1]

\* The classification of class c: the if / elif chain.
Classify(r, v, T, inGt, inPred, tg, tp) ==
  IF inGt /\ inPred THEN BothPresent(r, v, T, tg, tp)
  ELSE IF inGt /\ ~inPred THEN CountFN(r)
  ELSE IF ~inGt /\ inPred THEN [r EXCEPT !.loc_FP = @ + 1, !.acc.FP = @ + 1]
  ELSE [r EXCEPT !.acc.TN = @ + 1]

\* Mutant of ClassScan: Nsys is counted from the ground-truth mapping.
ClassScanNsysFromGt(r, v, T, gtb, predb, c, tg, tp) ==
  LET r1 == IF c \in gtb THEN [r EXCEPT !.acc.Nref = @ + 1] ELSE r
  IN  IF ~predb.present THEN [r1 EXCEPT !.raised = TRUE]
      ELSE LET r2 == IF c \in gtb THEN [r1 EXCEPT !.acc.Nsys = @ + 1] ELSE r1
           IN  Classify(r2, v, T, c \in gtb, c \in predb.keys, tg, tp)

\* One iteration of the class loop, for class c.  The lookup pred[block_cnt]
\* raises KeyError when the prediction mapping has no entry for the block,
\* after Nref was counted.
ClassScan(r, v, T, gtb, predb, c, tg, tp) ==
  LET r1 == IF c \in gtb THEN [r EXCEPT !.acc.Nref = @ + 1] ELSE r
  IN  IF ~predb.present THEN [r1 EXCEPT !.raised = TRUE]
      ELSE LET r2 == IF c \in predb.keys THEN [r1 EXCEPT !.acc.Nsys = @ + 1] ELSE r1
           IN  Classify(r2, v, T, c \in gtb, c \in predb.keys, tg, tp)

\* np.minimum, np.maximum
Minimum(a, b) == IF a <= b THEN a ELSE b
Maximum(a, b) == IF a >= b THEN a ELSE b

\* Mutants of BlockScores: S takes the larger local count; D is not clamped
\* at zero.
BlockScoresMaxS(r) ==
  [r EXCEPT !.acc.S = @ + Maximum(r.loc_FP, r.loc_FN),
            !.acc.D = @ + Maximum(0, r.loc_FN - r.loc_FP),
            !.acc.I = @ + Maximum(0, r.loc_FP - r.loc_FN)]

BlockScoresNoClamp(r) ==
  [r EXCEPT !.acc.S = @ + Minimum(r.loc_FP, r.loc_FN),
            !.acc.D = @ + (r.loc_FN - r.loc_FP),
            !.acc.I = @ + Maximum(0, r.loc_FP - r.loc_FN)]

\* The three updates after the class loop of a block.
BlockScores(r) ==
  [r EXCEPT !.acc.S = @ + Minimum(r.loc_FP, r.loc_FN),
            !.acc.D = @ + Maximum(0, r.loc_FN - r.loc_FP),
            !.acc.I = @ + Maximum(0, r.loc_FP - r.loc_FN)]

\* x / float(n + eps), in units of 1/unit.  eps is the machine epsilon: n + eps
\* is n for n >= 2, the float after 1 for n = 1 (the quotient is then just
\* below x: "below"), and eps itself for n = 0 (the quotient of a positive x
\* is then beyond every score: the largest integer stands for it).
DivEps(x, n, unit) ==
  IF n = 0 THEN [q |-> IF x = 0 THEN 0 ELSE 2147483647, below |-> FALSE]
  ELSE [q |-> (x * unit) \div n, below |-> (n = 1 /\ x > 0)]

\* 2 * p * r / (p + r + eps)
FScore(p, r) == IF p.q + r.q = 0 THEN 0 ELSE (2 * p.q * r.q) \div (p.q + r.q)

\* Mutant of Scores: the sentinel is returned when the total error is zero.
ScoresSentinelOnZeroError(a) ==
  [ER   |-> DivEps(a.S + a.D + a.I, a.Nref, 1000),
   F    |-> FScore(DivEps(a.TP, a.Nsys, 1000), DivEps(a.TP, a.Nref, 1000)),
   DE   |-> IF a.total_DE # 0 THEN DivEps(a.total_DE, a.DE_TP, 1)
                              ELSE [q |-> Deg(180), below |-> FALSE],
   DE_F |-> FScore(DivEps(a.DE_TP, a.Nsys, 1000), DivEps(a.DE_TP, a.Nref, 1000))]

\* compute_seld_scores: (ER, F, DE, DE_F).  ER and the F scores are in
\* thousandths, DE in arc minutes.
Scores(a) ==
  [ER   |-> DivEps(a.S + a.D + a.I, a.Nref, 1000),
   F    |-> FScore(DivEps(a.TP, a.Nsys, 1000), DivEps(a.TP, a.Nref, 1000)),
   DE   |-> IF a.DE_TP # 0 THEN DivEps(a.total_DE, a.DE_TP, 1)
                           ELSE [q |-> Deg(180), below |-> FALSE],
   DE_F |-> FScore(DivEps(a.DE_TP, a.Nsys, 1000), DivEps(a.DE_TP, a.Nref, 1000))]

\* ------------------------------------------------------------------ state
VARIABLES
  acc,         \* the counters of the accumulator under test
  spatial_T,   \* self._spatial_T, in arc minutes
  nb_classes,  \* self._nb_classes
  pc,          \* "idle", "block" (at the block loop's head), "class" (in the
               \* class loop) or "raised" (an ingestion call raised KeyError)
  variant,     \* the ingestion method running, "xyz" or "polar"; "none" when idle
  nblocks,     \* len(gt.keys()) of the call
  block_cnt,   \* the block loop's index
  class_cnt,   \* the class loop's index
  loc_FN,      \* the call's locals; 0 outside a block
  loc_FP,
  gt_blk,      \* gt[block_cnt]; empty outside a block
  pred_blk,    \* pred[block_cnt]; empty outside a block
  gt_trk,      \* gt[block_cnt][class][0] read by the last class step
  pred_trk,    \* pred[block_cnt][class][0] read by the last class step
  ret,         \* <<s>> with s the value compute_seld_scores returned, when it
               \* was called since the last ingestion call; <<>> otherwise
  acc0,        \* history: the counters when the current call began
  fresh,       \* two accumulators, fresh at the start of the current call, that
               \* ingest the call's input through the two methods: fresh["xyz"],
               \* fresh["polar"]
  ghost        \* history: blocks scanned to their end, their (block, class)
               \* memberships, and the class steps that matched a frame

vars == <<acc, spatial_T, nb_classes, pc, variant, nblocks, block_cnt, class_cnt,
          loc_FN, loc_FP, gt_blk, pred_blk, gt_trk, pred_trk, ret, acc0, fresh, ghost>>

config == <<spatial_T, nb_classes>>
call == <<variant, nblocks, acc0>>

Variants == {"xyz", "polar"}

\* The classes of the class loop: range(self._nb_classes).
Classes == 0..(nb_classes - 1)

\* A track pair has a frame index in common.
Matches(tg, tp) == \E i \in 1..Len(tg.frames) : In(tg.frames[i], tp.frames)

Init ==
  /\ acc = Zero
  /\ spatial_T = Deg(DoaThreshold)
  /\ nb_classes = NbClasses
  /\ pc = "idle"
  /\ variant = "none"
  /\ nblocks = 0
  /\ block_cnt = 0
  /\ class_cnt = 0
  /\ loc_FN = 0
  /\ loc_FP = 0
  /\ gt_blk = {}
  /\ pred_blk = NoBlock
  /\ gt_trk = NoTrack
  /\ pred_trk = NoTrack
  /\ ret = <<>>
  /\ acc0 = Zero
  /\ fresh = [v \in Variants |-> NewRun(Zero)]
  /\ ghost = [blocks |-> 0, gtPairs |-> 0, predPairs |-> 0, matched |-> 0]

\* A call of an ingestion method with a ground truth of n blocks.
Ingest(v, n) ==
  /\ pc = "idle"
  /\ pc' = "block"
  /\ variant' = v
  /\ nblocks' = n
  /\ block_cnt' = 0
  /\ acc0' = acc
  /\ fresh' = [w \in Variants |-> NewRun(Zero)]
  /\ ret' = <<>>
  /\ UNCHANGED <<acc, config, class_cnt, loc_FN, loc_FP, gt_blk, pred_blk,
                 gt_trk, pred_trk, ghost>>

update_seld_scores_xyz == \E n \in 0..(MaxTotalBlocks - ghost.blocks) : Ingest("xyz", n)

update_seld_scores == \E n \in 0..(MaxTotalBlocks - ghost.blocks) : Ingest("polar", n)

\* The head of the block loop, entering block block_cnt: loc_FN, loc_FP = 0, 0.
\* The block's two mappings are chosen here, where the loop first reaches them.
BlockStart ==
  /\ pc = "block"
  /\ block_cnt < nblocks
  /\ \E g \in GtBlocks, p \in PredBlocks :
       /\ gt_blk' = g
       /\ pred_blk' = p
  /\ loc_FN' = 0
  /\ loc_FP' = 0
  /\ class_cnt' = 0
  /\ UNCHANGED fresh
  /\ pc' = "class"
  /\ UNCHANGED <<acc, config, call, block_cnt, gt_trk, pred_trk, ret, ghost>>

\* The tracks a class step may read: one of each pool when the class is a key
\* of both mappings, none otherwise.
TracksRead(pool) ==
  IF pred_blk.present /\ class_cnt \in gt_blk /\ class_cnt \in pred_blk.keys
    THEN pool ELSE {NoTrack}

\* One iteration of the class loop.
ClassStep ==
  /\ pc = "class"
  /\ class_cnt < nb_classes
  /\ \E tg \in TracksRead(GtTracks), tp \in TracksRead(PredTracks) :
       LET r == ClassScan([acc |-> acc, loc_FN |-> loc_FN, loc_FP |-> loc_FP,
                           raised |-> FALSE],
                          variant, spatial_T, gt_blk, pred_blk, class_cnt, tg, tp)
       IN  /\ acc' = r.acc
           /\ loc_FN' = r.loc_FN
           /\ loc_FP' = r.loc_FP
           /\ pc' = IF r.raised THEN "raised" ELSE "class"
           /\ class_cnt' = IF r.raised THEN class_cnt ELSE class_cnt + 1
           /\ gt_trk' = tg
           /\ pred_trk' = tp
           /\ fresh' = [v \in Variants |->
                          ClassScan(fresh[v], v, spatial_T, gt_blk, pred_blk,
                                    class_cnt, tg, tp)]
           /\ ghost' = IF tg # NoTrack /\ Matches(tg, tp)
                         THEN [ghost EXCEPT !.matched = @ + 1] ELSE ghost
  /\ UNCHANGED <<config, call, block_cnt, gt_blk, pred_blk, ret>>

\* The end of the class loop of a block: S, D and I, and the next block.
BlockEnd ==
  /\ pc = "class"
  /\ class_cnt = nb_classes
  /\ acc' = BlockScores([acc |-> acc, loc_FN |-> loc_FN, loc_FP |-> loc_FP,
                         raised |-> FALSE]).acc
  /\ fresh' = [v \in Variants |-> NewRun(BlockScores(fresh[v]).acc)]
  /\ block_cnt' = block_cnt + 1
  /\ pc' = "block"
  /\ class_cnt' = 0
  /\ loc_FN' = 0
  /\ loc_FP' = 0
  /\ gt_blk' = {}
  /\ pred_blk' = NoBlock
  /\ gt_trk' = NoTrack
  /\ pred_trk' = NoTrack
  /\ ghost' = [ghost EXCEPT !.blocks = @ + 1,
                            !.gtPairs = @ + Cardinality(gt_blk \cap Classes),
                            !.predPairs = @ + Cardinality(pred_blk.keys \cap Classes)]
  /\ UNCHANGED <<config, call, ret>>

\* The return of the ingestion call, after the last block.
Return ==
  /\ pc = "block"
  /\ block_cnt = nblocks
  /\ pc' = "idle"
  /\ variant' = "none"
  /\ nblocks' = 0
  /\ block_cnt' = 0
  /\ acc0' = acc
  /\ fresh' = [v \in Variants |-> NewRun(Zero)]
  /\ UNCHANGED <<acc, config, class_cnt, loc_FN, loc_FP, gt_blk, pred_blk, gt_trk,
                 pred_trk, ret, ghost>>

\* Mutant of compute_seld_scores: the counters are reset after the scores
\* are collected.
compute_seld_scores_resets ==
  /\ pc = "idle"
  /\ ret' = <<Scores(acc)>>
  /\ acc' = Zero
  /\ acc0' = Zero
  /\ UNCHANGED <<config, variant, nblocks, pc, block_cnt, class_cnt, loc_FN, loc_FP,
                 gt_blk, pred_blk, gt_trk, pred_trk, fresh, ghost>>

\* compute_seld_scores, between ingestion calls.
compute_seld_scores ==
  /\ pc = "idle"
  /\ ret' = <<Scores(acc)>>
  /\ UNCHANGED <<acc, config, call, pc, block_cnt, class_cnt, loc_FN, loc_FP,
                 gt_blk, pred_blk, gt_trk, pred_trk, fresh, ghost>>

Next ==
  \/ update_seld_scores_xyz
  \/ update_seld_scores
  \/ BlockStart
  \/ ClassStep
  \/ BlockEnd
  \/ Return
  \/ compute_seld_scores

Spec == Init /\ [][Next]_vars

\* ----------------------------------------------------------------- claims
\* What a step adds to counter k of the accumulator under test.
Added(k) == acc'[k] - acc[k]

\* The steps of an ingestion call, told by the program position.
ClassStepped == pc = "class" /\ pc' = "class" /\ class_cnt' = class_cnt + 1
BlockEnded == pc = "class" /\ pc' = "block"
Scored == pc = "idle" /\ pc' = "idle"

\* Positions of tg's frame list whose frame index is also in tp's.
MatchedAt(tg, tp) == {i \in 1..Len(tg.frames) : In(tg.frames[i], tp.frames)}

\* Sum of the distances of the frames at the positions ps.
RECURSIVE SumDist(_, _, _, _)
SumDist(v, tg, tp, ps) ==
  IF ps = {} THEN 0
  ELSE LET i == CHOOSE i \in ps : TRUE
           j == CHOOSE j \in 1..Len(tp.frames) : tp.frames[j] = tg.frames[i]
       IN  Distance(v, tg.dirs[i], tp.dirs[j]) + SumDist(v, tg, tp, ps \ {i})

\* Mean distance of the matched frames of a track pair (one that matches).
MeanDist(v, tg, tp) ==
  SumDist(v, tg, tp, MatchedAt(tg, tp)) \div Cardinality(MatchedAt(tg, tp))

\* C1, the count: at every point the four detection counters sum to
\* nb_classes times the blocks scanned to their end, plus the classes
\* scanned of the block in progress.
C1_Sum ==
  acc.TP + acc.FP + acc.TN + acc.FN = nb_classes * ghost.blocks + class_cnt

\* C1, the step: the scan of a (block, class) pair adds one to exactly one of
\* TP, FP, TN, FN, chosen by the class's membership in the two mappings, and
\* no other step changes the four.
C1_Step ==
  LET inGt   == class_cnt \in gt_blk
      inPred == class_cnt \in pred_blk.keys
      four   == <<Added("TP"), Added("FP"), Added("TN"), Added("FN")>>
  IN  IF ClassStepped
        THEN /\ (inGt /\ inPred) => four \in {<<1, 0, 0, 0>>, <<0, 0, 0, 1>>}
             /\ (inGt /\ ~inPred) => four = <<0, 0, 0, 1>>
             /\ (~inGt /\ inPred) => four = <<0, 1, 0, 0>>
             /\ (~inGt /\ ~inPred) => four = <<0, 0, 1, 0>>
        ELSE four = <<0, 0, 0, 0>>

\* C1: in both ingestion methods every scanned (block, class) pair increments
\* exactly one of TP, FP, TN, FN by one, by its membership combination, so
\* that TP + FP + TN + FN is nb_classes times the blocks ingested.
C1_ExactlyOneOutcome == []C1_Sum /\ [][C1_Step]_vars

C1_Witness ==
  /\ pc = "idle"
  /\ ghost.blocks >= 2
  /\ acc.TP > 0 /\ acc.FP > 0 /\ acc.TN > 0 /\ acc.FN > 0

C3_Step ==
  LET fn == loc_FN
      fp == loc_FP
      dS == Added("S")
      dD == Added("D")
      dI == Added("I")
  IN  IF BlockEnded
        THEN /\ dS = (IF fp <= fn THEN fp ELSE fn)
             /\ dD = (IF fn > fp THEN fn - fp ELSE 0)
             /\ dI = (IF fp > fn THEN fp - fn ELSE 0)
             /\ dS + dD = fn
             /\ dS + dI = fp
             /\ dD = 0 \/ dI = 0
        ELSE dS = 0 /\ dD = 0 /\ dI = 0

C3_NonNegative == acc.S >= 0 /\ acc.D >= 0 /\ acc.I >= 0

\* C3: every block adds dS = min(fp, fn), dD = max(0, fn - fp) and
\* dI = max(0, fp - fn) to S, D, I, so dS + dD = fn, dS + dI = fp, at most one
\* of dD and dI is non-zero, and S, D, I are never negative.
C3_BlockDecomposition == []C3_NonNegative /\ [][C3_Step]_vars

C3_Witness ==
  /\ pc = "block"
  /\ ghost.blocks >= 2
  /\ acc.S >= 1
  /\ acc.D + acc.I >= 1

\* C4, the step of a class that is a key of both mappings with a ground-truth
\* frame index in the prediction's list.
C4_Step ==
  (/\ ClassStepped
   /\ class_cnt \in gt_blk
   /\ class_cnt \in pred_blk.keys
   /\ Matches(gt_trk', pred_trk'))
  => LET mean == MeanDist(variant, gt_trk', pred_trk')
     IN  /\ Added("total_DE") = mean
         /\ Added("DE_TP") = 1
         /\ IF mean <= spatial_T
              THEN Added("TP") = 1 /\ Added("FN") = 0 /\ loc_FN' = loc_FN
              ELSE Added("TP") = 0 /\ Added("FN") = 1 /\ loc_FN' = loc_FN + 1

\* C4: when the class of a step is a key of both mappings and a ground-truth
\* frame index is in the prediction's list, the mean distance of the matched
\* frames is added to total_DE and DE_TP is incremented; TP is incremented
\* if the mean is at most the threshold (equality included), and otherwise
\* FN and loc_FN are.
C4_MatchedMeanAndThreshold == [][C4_Step]_vars

\* A matched pair whose mean distance is exactly the threshold was counted
\* as the only true positive.
C4_Witness ==
  /\ pc = "class"
  /\ gt_trk # NoTrack
  /\ Matches(gt_trk, pred_trk)
  /\ MeanDist(variant, gt_trk, pred_trk) = spatial_T
  /\ ghost.matched = 1
  /\ acc.TP = 1
  /\ acc.FN = 0

\* C5, the step of a class of a block for which the prediction mapping has
\* no entry.
C5_Step ==
  (pc = "class" /\ class_cnt < nb_classes /\ ~pred_blk.present /\ pc' # pc)
  => /\ ClassStepped
     /\ Added("Nsys") = 0
     /\ IF class_cnt \in gt_blk THEN Added("FN") = 1 ELSE Added("TN") = 1

\* C5 (refuted by the code): a block for which the prediction mapping has no
\* entry is scanned as a block with no predictions: each class step
\* completes without raising, counting FN for a ground-truth class and TN
\* for any other, and Nsys stays.
C5_MissingBlockIsEmpty == [][C5_Step]_vars

\* C6 (refuted by the code): the two methods compute the same distance for
\* every frame they match, and the two fresh accumulators fed the same
\* input hold the same counters.
C6_SameDistancesAndCounters ==
  /\ \A i \in MatchedAt(gt_trk, pred_trk) :
       LET j == Index(pred_trk.frames, gt_trk.frames[i])
       IN  Distance("xyz", gt_trk.dirs[i], pred_trk.dirs[j])
             = Distance("polar", gt_trk.dirs[i], pred_trk.dirs[j])
  /\ fresh["xyz"].acc = fresh["polar"].acc

\* C7, the step: every counter is at least what it was.
C7_Step == \A k \in Counters : acc'[k] >= acc[k]

\* C7: no step of an ingestion call, and no step between calls, decreases
\* TP, FP, TN, FN, S, D, I, Nref, Nsys, DE_TP or total_DE.
C7_Monotone == [][C7_Step]_vars

C7_Witness ==
  /\ pc = "idle"
  /\ ghost.blocks >= 2
  /\ acc.total_DE > 0
  /\ acc.S > 0
  /\ acc.I > 0
  /\ acc.TN > 0

\* C8, the step of compute_seld_scores.
C8_Step ==
  Scored => /\ acc' = acc
            /\ config' = config
            /\ ret # <<>> => ret' = ret

\* C8: compute_seld_scores changes no counter and no configuration value,
\* and a second call with no ingestion in between returns what the first
\* returned.
C8_ReadOnly == [][C8_Step]_vars

C8_Witness ==
  /\ pc = "idle"
  /\ ret # <<>>
  /\ ghost.blocks >= 1
  /\ acc.DE_TP > 0

\* The sentinel compute_seld_scores returns for DE.
Sentinel == [q |-> Deg(180), below |-> FALSE]

\* C9 as claimed (refuted): the returned DE is 180 if and only if DE_TP is 0.
C9_SentinelIff ==
  ret # <<>> => (ret[1].DE = Sentinel <=> acc.DE_TP = 0)

\* C9 as amended: DE_TP is 0 exactly when no scanned pair was a key of both
\* mappings with a common frame index; compute_seld_scores returns DE = 180
\* when DE_TP is 0 and total_DE / DE_TP otherwise, and a returned 180 with
\* DE_TP > 0 means a total error of 180 degrees per counted pair.
C9_Sentinel ==
  /\ acc.DE_TP = 0 <=> ghost.matched = 0
  /\ ret # <<>> =>
       /\ acc.DE_TP = 0 => ret[1].DE = Sentinel
       /\ acc.DE_TP > 0 => ret[1].DE.q = acc.total_DE \div acc.DE_TP
       /\ (acc.DE_TP > 0 /\ ret[1].DE = Sentinel)
            => acc.total_DE = Deg(180) * acc.DE_TP

\* Scores were collected after pairs were scanned but none matched a frame:
\* one-sided classes, and a class in both mappings with disjoint frames.
C9_Witness ==
  /\ ret # <<>>
  /\ ret[1].DE = Sentinel
  /\ acc.DE_TP = 0
  /\ ghost.blocks = 2
  /\ nb_classes = 2
  /\ acc.Nref = 2
  /\ acc.Nsys = 2
  /\ acc.FN = 2
  /\ acc.FP = 1
  /\ acc.TN = 1

\* C10: the counters after a call are the counters before it plus those of
\* a fresh accumulator that ingested the call's input alone (component-wise,
\* at every step of the call), so two calls add up in either order.
C10_Additive ==
  pc # "idle" =>
    \A k \in Counters : acc[k] = acc0[k] + fresh[variant].acc[k]

C10_Witness ==
  /\ pc = "block"
  /\ block_cnt = nblocks
  /\ nblocks >= 1
  /\ acc0.S > 0
  /\ acc0.total_DE > 0
  /\ fresh[variant].acc.S > 0
  /\ fresh[variant].acc.total_DE > 0

====
